---- MODULE Spec2Model ----
(***************************************************************************)
(* Worker Pool Manager of the Inference Server Manager: the registry of    *)
(* supervised whisper-server children, the round-robin cursor, the         *)
(* per-port spawn backoff table, the Health and Audit sweeps, worker       *)
(* replacement and rotation, and the transcribe proxy path.                *)
(*                                                                         *)
(* The manager runs on a single-threaded event loop.  Every action below   *)
(* is one run-to-completion callback: the synchronous code of a handler up *)
(* to its first real suspension (an HTTP fetch or a timer), including the  *)
(* promise continuations that run as microtasks right after it.  What is   *)
(* still outstanding after a callback - health probes, startup polling,    *)
(* proxied requests, rotation timers, kill timers - is kept in `pending`.  *)
(***************************************************************************)
EXTENDS Integers, Sequences, FiniteSets, Bags, TLC

\* ---- program constants --------------------------------------------------
HEALTH_MAX_FAILURES == 3
MAX_SPAWN_FAILURES == 5
BASE_BACKOFF_MS == 5000
HEALTH_INTERVAL_MS == 5000
HEALTH_TIMEOUT_MS == 2000
STARTUP_TIMEOUT_MS == 30000
PoolSize == 2
StartingPort == 39000

\* ---- bounds of the model ------------------------------------------------
RotateThreshold == 2        \* config.workers.rotateThreshold
MaxWorkers == 3             \* Worker objects reachable at the same time
                            \* once a request has been dispatched to one
MaxIdleWorkers == 4         \* Worker objects reachable at the same time
                            \* while none of them has been sent a request
MaxRequestCount == 3        \* requests dispatched to one worker
MaxFaults == 1              \* faults the environment injects in one run
MaxStaleProbes == 0         \* probes of earlier sweeps still outstanding
                            \* when a Health Sweep fires
MaxProbesPerWorker == 2     \* outstanding probes of one worker in OverlapSpec
MaxDrainInflight == 2       \* upstream calls outstanding at once in DrainSpec
MaxInflight == 1            \* proxied requests outstanding at the same time
MaxTicks == 4               \* health intervals the clock runs for
MaxSpawnCount == 6          \* failure count of a Backoff Record
MaxMuteWorkers == 2         \* Worker objects reachable at the same time
                            \* when the command runs but never listens

VARIABLES
    cmd,            \* config.whisperServer.cmd: "", or the program it names
    initState,      \* progress of Manager.init
    timers,         \* healthCheckInterval and auditCheckInterval are armed
    disposed,       \* Manager.dispose has run: the HTTP server is stopped
    isCleaningUp,   \* index.ts: cleanup has started
    exited,         \* index.ts: process.exit has been called
    workers,        \* the registry, ids in Map insertion order
    handles,        \* the reachable Worker objects, by id; ids are opaque,
                    \* so the registered workers are numbered in Map order
                    \* and the others after them
    rrIndex,        \* round-robin cursor
    spawnFailures,  \* Map port -> {count, lastAttempt}
    pending,        \* bag of outstanding asynchronous work
    now,            \* Date.now()
    lastSweep,      \* when the health interval was armed or last fired
    result,         \* what the callback that just ran returned or raised
                    \* to the caller of transcribe ("none": no call ended)
    faults          \* faults injected so far: a child crash, a live child
                    \* that fails a probe, a request or its startup, a
                    \* Bun.spawn that raises

vars == <<cmd, initState, timers, disposed, isCleaningUp, exited, workers,
          handles, rrIndex, spawnFailures, pending, now, lastSweep, result,
          faults>>

\* What config.whisperServer.cmd can name: a server that answers /health and
\* /inference, a program that runs but never listens, or no executable at
\* all (Bun.spawn raises)
CmdServer == "whisper-server"
CmdMute == "sleep"
CmdMissing == "missing"

Ports == StartingPort .. (StartingPort + PoolSize - 1)

Pow2(n) == IF n <= 0 THEN 1 ELSE 2 ^ n

\* ---- Worker objects ------------------------------------------------------
\* Workers.spawn: the handle returned for a freshly forked child
NewWorker(port) ==
    [port |-> port, state |-> "starting", requestCount |-> 0,
     consecutiveFailures |-> 0, acceptingRequests |-> TRUE,
     startedAt |-> now, lastHealthyAt |-> 0,
     proc |-> "running"]

\* worker.process: "running"; "killing" once the 2 s kill timer of a graceful
\* terminate is armed; "killed" once kill() was called; "exited" when the
\* child ended on its own and reported an exit code.
Kill(proc) == IF proc \in {"running", "killing"} THEN "killed" ELSE proc

ArmKill(proc) == IF proc = "running" THEN "killing" ELSE proc

\* the child still serves its HTTP endpoint
Up(h) == h.proc \in {"running", "killing"} /\ cmd = CmdServer

\* Workers.isAlive: the process has not reported an exit code
isAlive(h) == h.proc # "exited"

\* ---- outstanding asynchronous work ---------------------------------------
Task(type, w, kind, arg) == [type |-> type, w |-> w, kind |-> kind, arg |-> arg]
ProbeTask(w) == Task("probe", w, "none", 0)
ProxyTask(w) == Task("proxy", w, "none", 0)
RotateTask(w) == Task("rotate", w, "none", 0)
StartupTask(w, kind, arg) == Task("startup", w, kind, arg)

AddTask(bag, t) == bag (+) SetToBag({t})
DelTask(bag, t) == bag (-) SetToBag({t})

\* Map.delete on the registry keeps the order of the other entries
Remove(seq, id) == SelectSeq(seq, LAMBDA x : x # id)

InRegistry(ws, id) == \E i \in 1..Len(ws) : ws[i] = id

\* The mutable manager state threaded through one callback
State == [workers |-> workers, handles |-> handles,
          spawnFailures |-> spawnFailures, pending |-> pending]

\* The state a callback starts from: its own task t is no longer outstanding
Take(t) == [State EXCEPT !.pending = DelTask(@, t)]

\* ---- Workers.terminate ---------------------------------------------------
terminate(S, w, graceful) ==
    [S EXCEPT
       !.handles[w].acceptingRequests = FALSE,
       !.handles[w].state = "stopped",
       !.handles[w].proc = IF graceful THEN ArmKill(@) ELSE Kill(@)]

\* Workers.terminate when process.kill() raises.  A non-graceful call leaves
\* its try block at the kill, before the assignment of Stopped, and the catch
\* only logs; a graceful call has returned before its timer calls kill().
terminateKillRaises(S, w, graceful) ==
    IF graceful THEN terminate(S, w, TRUE)
    ELSE [S EXCEPT !.handles[w].acceptingRequests = FALSE]

\* ---- Manager.spawnWorker, up to its first suspension --------------------
CountOf(sf, port) == IF port \in DOMAIN sf THEN sf[port].count ELSE 0

backoffMs_Flat(count) == BASE_BACKOFF_MS

backoffMs(count) == BASE_BACKOFF_MS * Pow2(count - MAX_SPAWN_FAILURES)

SkipSpawn_Inclusive(sf, port, t) ==
    /\ port \in DOMAIN sf
    /\ sf[port].count >= MAX_SPAWN_FAILURES
    /\ t - sf[port].lastAttempt <= backoffMs(sf[port].count)

\* the backoff check at the head of spawnWorker
SkipSpawn(sf, port, t) ==
    /\ port \in DOMAIN sf
    /\ sf[port].count >= MAX_SPAWN_FAILURES
    /\ t - sf[port].lastAttempt < backoffMs(sf[port].count)

SetFailure(sf, port, count, t) ==
    (port :> [count |-> count, lastAttempt |-> t]) @@ sf

DeleteFailure(sf, port) == [p \in (DOMAIN sf) \ {port} |-> sf[p]]

\* worker_${port}_${Date.now()}_${workerCounter++}: an id no reachable Worker
\* object carries
NextId(hs) ==
    CHOOSE i \in 1..(Cardinality(DOMAIN hs) + 1) :
        i \notin DOMAIN hs /\ \A j \in 1..(i - 1) : j \in DOMAIN hs

spawnWorker_StampOnSkip(S, port, throws, kind, arg) ==
    IF SkipSpawn(S.spawnFailures, port, now)
    THEN [S EXCEPT !.spawnFailures[port].lastAttempt = now]
    ELSE IF throws
    THEN [S EXCEPT !.spawnFailures =
             SetFailure(@, port, CountOf(@, port) + 1, now)]
    ELSE LET id == NextId(S.handles) IN
         [S EXCEPT
            !.spawnFailures = SetFailure(@, port, CountOf(@, port), now),
            !.handles = (id :> NewWorker(port)) @@ @,
            !.workers = Append(@, id),
            !.pending = AddTask(@, StartupTask(id, kind, arg))]

\* throws: Bun.spawn raises for this attempt.  kind/arg: what the caller does
\* once the returned promise settles.
spawnWorker(S, port, throws, kind, arg) ==
    IF SkipSpawn(S.spawnFailures, port, now) THEN S
    ELSE IF throws
    THEN [S EXCEPT !.spawnFailures =
             SetFailure(@, port, CountOf(@, port) + 1, now)]
    ELSE LET id == NextId(S.handles) IN
         [S EXCEPT
            !.spawnFailures = SetFailure(@, port, CountOf(@, port), now),
            !.handles = (id :> NewWorker(port)) @@ @,
            !.workers = Append(@, id),
            !.pending = AddTask(@, StartupTask(id, kind, arg))]

\* the call registered a worker and is now suspended in waitForHealthy
Started(S, T) == DOMAIN T.handles # DOMAIN S.handles

replaceWorker_IfRegistered(S, w, throws) ==
    IF ~InRegistry(S.workers, w) THEN S
    ELSE LET S1 == [S EXCEPT !.handles[w].state = "unhealthy",
                             !.handles[w].acceptingRequests = FALSE,
                             !.workers = Remove(@, w)]
             S2 == spawnWorker(S1, S.handles[w].port, throws, "replace", w)
         IN  IF Started(S1, S2) THEN S2 ELSE terminate(S2, w, TRUE)

replaceWorker_KeepEntry(S, w, throws) ==
    LET S1 == [S EXCEPT !.handles[w].state = "unhealthy",
                        !.handles[w].acceptingRequests = FALSE]
        S2 == spawnWorker(S1, S.handles[w].port, throws, "replace", w)
    IN  IF Started(S1, S2) THEN S2 ELSE terminate(S2, w, TRUE)

replaceWorker_NoTerminate(S, w, throws) ==
    LET S1 == [S EXCEPT !.handles[w].state = "unhealthy",
                        !.handles[w].acceptingRequests = FALSE,
                        !.workers = Remove(@, w)]
    IN  spawnWorker(S1, S.handles[w].port, throws, "replace", w)

replaceWorker_TerminateFirst(S, w, throws) ==
    LET S1 == [S EXCEPT !.handles[w].state = "unhealthy",
                        !.handles[w].acceptingRequests = FALSE,
                        !.workers = Remove(@, w)]
    IN  spawnWorker(terminate(S1, w, TRUE), S.handles[w].port, throws,
                    "replace", w)

\* ---- Manager.replaceWorker -----------------------------------------------
replaceWorker(S, w, throws) ==
    LET S1 == [S EXCEPT !.handles[w].state = "unhealthy",
                        !.handles[w].acceptingRequests = FALSE,
                        !.workers = Remove(@, w)]
        S2 == spawnWorker(S1, S.handles[w].port, throws, "replace", w)
    IN  IF Started(S1, S2) THEN S2 ELSE terminate(S2, w, TRUE)

RECURSIVE recoverPool_IgnoreExisting(_, _, _)
recoverPool_IgnoreExisting(S, i, throws) ==
    IF i >= PoolSize THEN S
    ELSE LET T == spawnWorker(S, StartingPort + i, throws, "recover", i + 1)
         IN  IF Started(S, T) THEN T
             ELSE recoverPool_IgnoreExisting(T, i + 1, throws)

\* ---- Manager.recoverPool, from loop index i to its next suspension ------
RECURSIVE recoverPool(_, _, _)
recoverPool(S, i, throws) ==
    IF i >= PoolSize THEN S
    ELSE LET port == StartingPort + i
             existing == \E k \in 1..Len(S.workers) :
                            S.handles[S.workers[k]].port = port
         IN  IF existing THEN recoverPool(S, i + 1, throws)
             ELSE LET T == spawnWorker(S, port, throws, "recover", i + 1)
                  IN  IF Started(S, T) THEN T
                      ELSE recoverPool(T, i + 1, throws)

RECURSIVE initLoop_NoAwait(_, _, _)
initLoop_NoAwait(S, i, throws) ==
    IF i >= PoolSize THEN [s |-> S, done |-> TRUE]
    ELSE initLoop_NoAwait(spawnWorker(S, StartingPort + i, throws, "init", i + 1),
                          i + 1, throws)

RECURSIVE initLoop_Propagates(_, _, _)
initLoop_Propagates(S, i, throws) ==
    IF i >= PoolSize THEN [s |-> S, done |-> TRUE]
    ELSE LET T == spawnWorker(S, StartingPort + i, throws, "init", i + 1)
         IN  IF Started(S, T) \/ throws THEN [s |-> T, done |-> FALSE]
             ELSE initLoop_Propagates(T, i + 1, throws)

\* ---- Manager.init loop, from loop index i to its next suspension --------
RECURSIVE initLoop(_, _, _)
initLoop(S, i, throws) ==
    IF i >= PoolSize THEN [s |-> S, done |-> TRUE]
    ELSE LET T == spawnWorker(S, StartingPort + i, throws, "init", i + 1)
         IN  IF Started(S, T) THEN [s |-> T, done |-> FALSE]
             ELSE initLoop(T, i + 1, throws)

\* ---- Manager.selectWorker ------------------------------------------------
Null == 0

healthyWorkers_IgnoreAccepting(ws, hs) ==
    SelectSeq(ws, LAMBDA id : hs[id].state = "healthy")

healthyWorkers(ws, hs) ==
    SelectSeq(ws, LAMBDA id : hs[id].state = "healthy"
                              /\ hs[id].acceptingRequests)

\* healthyWorkers[idx] ?? null
At(seq, idx) == IF idx + 1 \in 1..Len(seq) THEN seq[idx + 1] ELSE Null

selectIdx_NoMod(rr, len) == rr

\* const idx = rrIndex % healthyWorkers.length
selectIdx(rr, len) == rr % len

nextIdx_Stuck(rr, len) == rr % len

\* rrIndex = (rrIndex + 1) % healthyWorkers.length
nextIdx(rr, len) == (rr + 1) % len

selectWorker(ws, hs, rr) ==
    LET hw == healthyWorkers(ws, hs) IN
    IF Len(hw) = 0 THEN [worker |-> Null, rrIndex |-> rr]
    ELSE [worker |-> At(hw, selectIdx(rr, Len(hw))),
          rrIndex |-> nextIdx(rr, Len(hw))]

\* ---- bounds ---------------------------------------------------------------
\* A Worker object is reachable while it is registered or an outstanding
\* callback holds it; an unreachable one can never be read or written again.
Reachable(S) ==
    {w \in DOMAIN S.handles :
        \/ InRegistry(S.workers, w)
        \/ \E t \in BagToSet(S.pending) :
              t.w = w \/ (t.kind = "replace" /\ t.arg = w)}

\* The id a reachable Worker object is known by from the next callback on:
\* its position in the registry, or its rank among the other reachable ones.
NewIds(S) ==
    LET live == Reachable(S) IN
    [w \in live |->
        IF InRegistry(S.workers, w)
        THEN CHOOSE i \in 1..Len(S.workers) : S.workers[i] = w
        ELSE Len(S.workers)
             + Cardinality({d \in live :
                              ~InRegistry(S.workers, d) /\ d <= w})]

RenameTask(ids, t) ==
    [t EXCEPT !.w = ids[t.w],
              !.arg = IF t.kind = "replace" THEN ids[t.arg] ELSE t.arg]

Renamed(S, ids) ==
    LET tasks == BagToSet(S.pending) IN
    [workers |-> [k \in 1..Len(S.workers) |-> k],
     handles |-> [k \in 1..Cardinality(DOMAIN ids) |->
                    S.handles[CHOOSE w \in DOMAIN ids : ids[w] = k]],
     spawnFailures |-> S.spawnFailures,
     pending |-> [u \in {RenameTask(ids, t) : t \in tasks} |->
                    S.pending[CHOOSE t \in tasks : RenameTask(ids, t) = u]]]

Collect(S) == Renamed(S, NewIds(S))

Count(bag, type) ==
    LET ts == {t \in BagToSet(bag) : t.type = type}
        RECURSIVE Sum(_)
        Sum(X) == IF X = {} THEN 0
                  ELSE LET t == CHOOSE x \in X : TRUE
                       IN  bag[t] + Sum(X \ {t})
    IN  Sum(ts)

Idle(S) == \A w \in DOMAIN S.handles : S.handles[w].requestCount = 0

WithinBounds(S) ==
    /\ Cardinality(DOMAIN S.handles)
          <= (IF cmd = CmdMute THEN MaxMuteWorkers
              ELSE IF Idle(S) THEN MaxIdleWorkers ELSE MaxWorkers)
    /\ \A w \in DOMAIN S.handles : S.handles[w].requestCount <= MaxRequestCount
    /\ Count(S.pending, "proxy") <= MaxInflight
    /\ \A p \in DOMAIN S.spawnFailures :
          S.spawnFailures[p].count <= MaxSpawnCount

\* cost: the faults the environment injected into this callback
Commit(T, cost) ==
    \E S \in {Collect(T)} :
    /\ WithinBounds(S)
    /\ faults + cost <= MaxFaults
    /\ faults' = faults + cost
    /\ workers' = S.workers
    /\ handles' = S.handles
    /\ spawnFailures' = S.spawnFailures
    /\ pending' = S.pending

\* ---- initial state --------------------------------------------------------
Init ==
    /\ cmd \in {"", CmdServer}
    /\ initState = "idle"
    /\ timers = FALSE
    /\ disposed = FALSE
    /\ isCleaningUp = FALSE
    /\ exited = FALSE
    /\ workers = <<>>
    /\ handles = <<>>
    /\ rrIndex = 0
    /\ spawnFailures = <<>>
    /\ pending = EmptyBag
    /\ now = 0
    /\ lastSweep = 0
    /\ result = "none"
    /\ faults = 0

\* A raising Bun.spawn is a fault; it is only counted in a callback where
\* it changes the outcome, that is, where a spawn is really attempted.
Raises(throws, withRaise, without) ==
    IF cmd = CmdMissing THEN throws ELSE throws => withRaise # without

Cost(b) == IF b THEN 1 ELSE 0

\* a Bun.spawn that raises because there is no executable is no fault
SpawnCost(throws) == Cost(throws /\ cmd # CmdMissing)

InitCall_NoCheck(throws) ==
    /\ initState = "idle"
    /\ \E r \in {initLoop(State, 0, throws)} :
          /\ Raises(throws, r, initLoop(State, 0, FALSE))
          /\ Commit(r.s, SpawnCost(throws))
          /\ initState' = IF r.done THEN "done" ELSE "running"
          /\ timers' = r.done
          /\ lastSweep' = now
    /\ result' = "none"
    /\ UNCHANGED <<isCleaningUp, exited, cmd, disposed, rrIndex, now>>

\* ---- Manager.init ---------------------------------------------------------
InitCall(throws) ==
    /\ initState = "idle"
    /\ IF cmd = ""
       THEN /\ ~throws
            /\ initState' = "failed"
            /\ UNCHANGED <<timers, workers, handles, spawnFailures, pending,
                           faults, lastSweep>>
       ELSE \E r \in {initLoop(State, 0, throws)} :
            /\ Raises(throws, r, initLoop(State, 0, FALSE))
            /\ Commit(r.s, SpawnCost(throws))
            /\ initState' = IF r.done THEN "done" ELSE "running"
            /\ timers' = r.done
            /\ lastSweep' = now
    /\ result' = "none"
    /\ UNCHANGED <<isCleaningUp, exited, cmd, disposed, rrIndex, now>>

\* ---- the continuation of a spawnWorker call after waitForHealthy --------
Continue(S, t, throws) ==
    CASE t.kind = "replace" -> [s |-> terminate(S, t.arg, TRUE), done |-> FALSE]
      [] t.kind = "recover" -> [s |-> recoverPool(S, t.arg, throws), done |-> FALSE]
      [] t.kind = "init"    -> initLoop(S, t.arg, throws)
      [] OTHER              -> [s |-> S, done |-> FALSE]

onStartup_KeepRecord(S, t, healthy) ==
    LET w == t.w
        port == S.handles[w].port
        S0 == [S EXCEPT !.pending = DelTask(@, t)]
    IN  IF healthy
        THEN [S0 EXCEPT
                !.handles[w].state = "healthy",
                !.handles[w].consecutiveFailures = 0,
                !.handles[w].lastHealthyAt = now]
        ELSE terminate([S0 EXCEPT
                          !.spawnFailures =
                              SetFailure(@, port, CountOf(@, port) + 1, now),
                          !.workers = Remove(@, w)],
                       w, FALSE)

onStartup_Graceful(S, t, healthy) ==
    LET w == t.w
        port == S.handles[w].port
        S0 == [S EXCEPT !.pending = DelTask(@, t)]
    IN  IF healthy
        THEN [S0 EXCEPT
                !.handles[w].state = "healthy",
                !.handles[w].consecutiveFailures = 0,
                !.handles[w].lastHealthyAt = now,
                !.spawnFailures = DeleteFailure(@, port)]
        ELSE terminate([S0 EXCEPT
                          !.spawnFailures =
                              SetFailure(@, port, CountOf(@, port) + 1, now),
                          !.workers = Remove(@, w)],
                       w, TRUE)

\* the rest of spawnWorker once waitForHealthy has settled
onStartup(S, t, healthy) ==
    LET w == t.w
        port == S.handles[w].port
        S0 == [S EXCEPT !.pending = DelTask(@, t)]
    IN  IF healthy
        THEN [S0 EXCEPT
                !.handles[w].state = "healthy",
                !.handles[w].consecutiveFailures = 0,
                !.handles[w].lastHealthyAt = now,
                !.spawnFailures = DeleteFailure(@, port)]
        ELSE terminate([S0 EXCEPT
                          !.spawnFailures =
                              SetFailure(@, port, CountOf(@, port) + 1, now),
                          !.workers = Remove(@, w)],
                       w, FALSE)

\* the failure path of spawnWorker when the kill of the failed child raises
onStartupKillRaises(S, t) ==
    LET w == t.w
        port == S.handles[w].port
        S0 == [S EXCEPT !.pending = DelTask(@, t)]
    IN  terminateKillRaises([S0 EXCEPT
                                !.spawnFailures =
                                    SetFailure(@, port, CountOf(@, port) + 1, now),
                                !.workers = Remove(@, w)],
                            w, FALSE)

\* waitForHealthy settles: a probe succeeded, or the deadline passed
StartupDone(t, healthy, throws) ==
    /\ BagIn(t, pending) /\ t.type = "startup"
    /\ healthy => Up(handles[t.w])
    /\ \E S1 \in {onStartup(State, t, healthy)} :
       \E r \in {Continue(S1, t, throws)} :
           /\ Raises(throws, r, Continue(S1, t, FALSE))
           /\ Commit(r.s, SpawnCost(throws)
                           + Cost(~healthy /\ Up(handles[t.w])))
           /\ initState' = IF r.done THEN "done" ELSE initState
           /\ timers' = IF r.done THEN TRUE ELSE timers
           /\ lastSweep' = IF r.done THEN now ELSE lastSweep
    /\ result' = "none"
    /\ UNCHANGED <<isCleaningUp, exited, cmd, disposed, rrIndex, now>>

\* waitForHealthy gives up at its deadline and the kill of the child, which
\* has not exited, raises: one fault of the host
StartupDoneKillRaises(t, throws) ==
    /\ BagIn(t, pending) /\ t.type = "startup"
    /\ handles[t.w].proc = "running"
    /\ \E S1 \in {onStartupKillRaises(State, t)} :
       \E r \in {Continue(S1, t, throws)} :
           /\ Raises(throws, r, Continue(S1, t, FALSE))
           /\ Commit(r.s, 1 + SpawnCost(throws) + Cost(Up(handles[t.w])))
           /\ initState' = IF r.done THEN "done" ELSE initState
           /\ timers' = IF r.done THEN TRUE ELSE timers
           /\ lastSweep' = IF r.done THEN now ELSE lastSweep
    /\ result' = "none"
    /\ UNCHANGED <<isCleaningUp, exited, cmd, disposed, rrIndex, now>>

\* ---- Manager.healthSweep --------------------------------------------------
RECURSIVE AddProbes(_, _, _)
AddProbes(bag, ws, i) ==
    IF i > Len(ws) THEN bag
    ELSE AddProbes(AddTask(bag, ProbeTask(ws[i])), ws, i + 1)

HealthSweep ==
    /\ timers
    /\ workers # <<>>
    /\ Count(pending, "probe") <= MaxStaleProbes
    /\ Commit([State EXCEPT !.pending = AddProbes(@, workers, 1)], 0)
    /\ lastSweep' = now
    /\ result' = "none"
    /\ UNCHANGED <<isCleaningUp, exited, cmd, initState, timers, disposed, rrIndex, now>>

\* a Health Sweep that fires while probes of the sweep before it are still
\* outstanding: healthSweep does not wait for them
HealthSweepOverlap ==
    /\ timers
    /\ workers # <<>>
    /\ \A t \in BagToSet(pending) :
          t.type = "probe" => pending[t] < MaxProbesPerWorker
    /\ Commit([State EXCEPT !.pending = AddProbes(@, workers, 1)], 0)
    /\ lastSweep' = now
    /\ result' = "none"
    /\ UNCHANGED <<isCleaningUp, exited, cmd, initState, timers, disposed, rrIndex, now>>

onProbe_Reopen(S, w, healthy, throws) ==
    IF healthy
    THEN [S EXCEPT !.handles[w].consecutiveFailures = 0,
                   !.handles[w].lastHealthyAt = now,
                   !.handles[w].state = "healthy",
                   !.handles[w].acceptingRequests = TRUE]
    ELSE LET S1 == [S EXCEPT !.handles[w].consecutiveFailures = @ + 1]
         IN  IF S1.handles[w].consecutiveFailures >= HEALTH_MAX_FAILURES
             THEN replaceWorker(S1, w, throws)
             ELSE S1

onProbe_Late(S, w, healthy, throws) ==
    IF healthy
    THEN [S EXCEPT !.handles[w].consecutiveFailures = 0,
                   !.handles[w].lastHealthyAt = now,
                   !.handles[w].state = "healthy"]
    ELSE LET S1 == [S EXCEPT !.handles[w].consecutiveFailures = @ + 1]
         IN  IF S1.handles[w].consecutiveFailures > HEALTH_MAX_FAILURES
             THEN replaceWorker(S1, w, throws)
             ELSE S1

onProbe_KeepCount(S, w, healthy, throws) ==
    IF healthy
    THEN [S EXCEPT !.handles[w].lastHealthyAt = now,
                   !.handles[w].state = "healthy"]
    ELSE LET S1 == [S EXCEPT !.handles[w].consecutiveFailures = @ + 1]
         IN  IF S1.handles[w].consecutiveFailures >= HEALTH_MAX_FAILURES
             THEN replaceWorker(S1, w, throws)
             ELSE S1

\* the .then callback of one probe of the sweep
onProbe(S, w, healthy, throws) ==
    IF healthy
    THEN [S EXCEPT !.handles[w].consecutiveFailures = 0,
                   !.handles[w].lastHealthyAt = now,
                   !.handles[w].state = "healthy"]
    ELSE LET S1 == [S EXCEPT !.handles[w].consecutiveFailures = @ + 1]
         IN  IF S1.handles[w].consecutiveFailures >= HEALTH_MAX_FAILURES
             THEN replaceWorker(S1, w, throws)
             ELSE S1

ProbeDone(w, healthy, throws) ==
    /\ BagIn(ProbeTask(w), pending)
    /\ healthy => Up(handles[w])
    /\ \E S1 \in {Take(ProbeTask(w))} :
       \E S2 \in {onProbe(S1, w, healthy, throws)} :
           /\ Raises(throws, S2, onProbe(S1, w, healthy, FALSE))
           /\ Commit(S2, SpawnCost(throws) + Cost(~healthy /\ Up(handles[w])))
    /\ result' = "none"
    /\ UNCHANGED <<isCleaningUp, exited, cmd, initState, timers, disposed, rrIndex, now, lastSweep>>

RECURSIVE auditLoop_NoRespawn(_, _, _)
auditLoop_NoRespawn(S, k, throws) ==
    IF k > Len(S.workers) THEN S
    ELSE LET w == S.workers[k] IN
         IF isAlive(S.handles[w]) THEN auditLoop_NoRespawn(S, k + 1, throws)
         ELSE auditLoop_NoRespawn([S EXCEPT !.workers = Remove(@, w)], k, throws)

\* ---- Manager.auditSweep ---------------------------------------------------
\* for (const worker of workers.values()): a Map iterator skips over the
\* entry deleted under it and visits entries appended during the loop
RECURSIVE auditLoop(_, _, _)
auditLoop(S, k, throws) ==
    IF k > Len(S.workers) THEN S
    ELSE LET w == S.workers[k] IN
         IF isAlive(S.handles[w]) THEN auditLoop(S, k + 1, throws)
         ELSE LET S1 == [S EXCEPT !.workers = Remove(@, w)]
                  S2 == spawnWorker(S1, S.handles[w].port, throws, "audit", 0)
              IN  auditLoop(S2, k, throws)

auditSweep(S, throws) ==
    LET S1 == auditLoop(S, 1, throws)
    IN  IF Len(S1.workers) = 0 THEN recoverPool(S1, 0, throws) ELSE S1

AuditSweep(throws) ==
    /\ timers
    /\ \E S1 \in {auditSweep(State, throws)} :
           /\ Raises(throws, S1, auditSweep(State, FALSE))
           /\ S1 # State
           /\ Commit(S1, SpawnCost(throws))
    /\ result' = "none"
    /\ UNCHANGED <<isCleaningUp, exited, cmd, initState, timers, disposed, rrIndex, now, lastSweep>>

\* ---- Manager.transcribe ---------------------------------------------------
NoHealthy == "No healthy workers available"

\* transcribe is reached through the HTTP server only, which listens once
\* init has returned and until the shutdown that calls dispose
Transcribe ==
    /\ initState = "done" /\ ~disposed
    /\ LET sel == selectWorker(workers, handles, rrIndex) IN
       IF sel.worker = Null
       THEN /\ result' = NoHealthy
            /\ UNCHANGED <<workers, handles, spawnFailures, pending, rrIndex,
                           faults>>
       ELSE /\ Commit([State EXCEPT
                         !.handles[sel.worker].requestCount = @ + 1,
                         !.pending = AddTask(@, ProxyTask(sel.worker))], 0)
            /\ rrIndex' = sel.rrIndex
            /\ result' = "none"
    /\ UNCHANGED <<isCleaningUp, exited, cmd, initState, timers, disposed, now, lastSweep>>

\* transcribe called while an earlier call is still awaiting its upstream
\* response
TranscribeOverlap ==
    /\ initState = "done" /\ ~disposed
    /\ LET sel == selectWorker(workers, handles, rrIndex) IN
       IF sel.worker = Null
       THEN /\ result' = NoHealthy
            /\ UNCHANGED <<workers, handles, spawnFailures, pending, rrIndex,
                           faults>>
       ELSE /\ \E S \in {Collect([State EXCEPT
                         !.handles[sel.worker].requestCount = @ + 1,
                         !.pending = AddTask(@, ProxyTask(sel.worker))])} :
                 /\ WithinBounds([S EXCEPT !.pending = EmptyBag])
                 /\ Count(S.pending, "proxy") <= MaxDrainInflight
                 /\ workers' = S.workers
                 /\ handles' = S.handles
                 /\ spawnFailures' = S.spawnFailures
                 /\ pending' = S.pending
                 /\ faults' = faults
            /\ rrIndex' = sel.rrIndex
            /\ result' = "none"
    /\ UNCHANGED <<isCleaningUp, exited, cmd, initState, timers, disposed, now, lastSweep>>

scheduleWorkerRotation_StillAccepting(S, w) ==
    [S EXCEPT !.pending = AddTask(@, RotateTask(w))]

scheduleWorkerRotation(S, w) ==
    [S EXCEPT !.handles[w].acceptingRequests = FALSE,
              !.pending = AddTask(@, RotateTask(w))]

onProxy_RotateOnFailure(S, w, ok) ==
    LET S1 == IF ok THEN S
              ELSE [S EXCEPT !.handles[w].consecutiveFailures = @ + 1]
    IN  IF S1.handles[w].requestCount >= RotateThreshold
        THEN scheduleWorkerRotation(S1, w)
        ELSE S1

onProxy_CountOnReturn(S, w, ok) ==
    LET S1 == [S EXCEPT !.handles[w].requestCount = @ + 1]
    IN  IF ok
        THEN IF S1.handles[w].requestCount >= RotateThreshold
             THEN scheduleWorkerRotation(S1, w)
             ELSE S1
        ELSE [S1 EXCEPT !.handles[w].consecutiveFailures = @ + 1]

\* the rest of transcribe once proxyToWorker has settled: ok, or it raised
\* (non-2xx status, transport error, 120 s abort)
onProxy(S, w, ok) ==
    IF ok
    THEN IF S.handles[w].requestCount >= RotateThreshold
         THEN scheduleWorkerRotation(S, w)
         ELSE S
    ELSE [S EXCEPT !.handles[w].consecutiveFailures = @ + 1]

ProxyDone(w, ok) ==
    /\ BagIn(ProxyTask(w), pending)
    /\ ok => Up(handles[w])
    /\ Commit(onProxy(Take(ProxyTask(w)), w, ok),
              Cost(~ok /\ Up(handles[w])))
    /\ result' = IF ok THEN "ok" ELSE "upstream error"
    /\ UNCHANGED <<isCleaningUp, exited, cmd, initState, timers, disposed, rrIndex, now, lastSweep>>

\* the 5 s timer of scheduleWorkerRotation
RotateFire(w, throws) ==
    /\ BagIn(RotateTask(w), pending)
    /\ \E S1 \in {Take(RotateTask(w))} :
       \E S2 \in {replaceWorker(S1, w, throws)} :
           /\ Raises(throws, S2, replaceWorker(S1, w, FALSE))
           /\ Commit(S2, SpawnCost(throws))
    /\ result' = "none"
    /\ UNCHANGED <<isCleaningUp, exited, cmd, initState, timers, disposed, rrIndex, now, lastSweep>>

\* ---- Workers.terminate's 2 s kill timer, and the child itself -----------
KillFire(w) ==
    /\ w \in DOMAIN handles
    /\ handles[w].proc = "killing"
    /\ Commit([State EXCEPT !.handles[w].proc = Kill(@)], 0)
    /\ result' = "none"
    /\ UNCHANGED <<isCleaningUp, exited, cmd, initState, timers, disposed, rrIndex, now, lastSweep>>

\* the child of a worker crashes
ChildExit(w) ==
    /\ w \in DOMAIN handles
    /\ handles[w].proc = "running"
    /\ Commit([State EXCEPT !.handles[w].proc = "exited"], 1)
    /\ result' = "none"
    /\ UNCHANGED <<isCleaningUp, exited, cmd, initState, timers, disposed, rrIndex, now, lastSweep>>

\* every child of the pool is killed from outside at once
KillAllChildren ==
    /\ \E w \in DOMAIN handles : handles[w].proc = "running"
    /\ Commit([State EXCEPT !.handles =
                  [w \in DOMAIN @ |->
                     IF @[w].proc \in {"running", "killing"}
                     THEN [@[w] EXCEPT !.proc = "exited"] ELSE @[w]]], 1)
    /\ result' = "none"
    /\ UNCHANGED <<isCleaningUp, exited, cmd, initState, timers, disposed, rrIndex, now, lastSweep>>

\* ---- the clock ------------------------------------------------------------
\* One health interval passes.  Time does not pass over a deadline: a probe
\* settles within HEALTH_TIMEOUT_MS, waitForHealthy returns by its deadline
\* and an armed health interval has fired for the workers it finds.
Tick ==
    /\ now + HEALTH_INTERVAL_MS <= MaxTicks * HEALTH_INTERVAL_MS
    /\ HEALTH_TIMEOUT_MS < HEALTH_INTERVAL_MS => Count(pending, "probe") = 0
    /\ \A t \in BagToSet(pending) :
          t.type = "startup" =>
            now + HEALTH_INTERVAL_MS
              <= handles[t.w].startedAt + STARTUP_TIMEOUT_MS
    /\ (timers /\ workers # <<>>) => lastSweep = now
    /\ now' = now + HEALTH_INTERVAL_MS
    /\ result' = "none"
    /\ UNCHANGED <<isCleaningUp, exited, cmd, initState, timers, disposed, workers, handles, rrIndex,
                   spawnFailures, pending, lastSweep, faults>>

\* ---- Manager.dispose ------------------------------------------------------
RECURSIVE terminateAll_Force(_, _)
terminateAll_Force(S, k) ==
    IF k > Len(S.workers) THEN S
    ELSE terminateAll_Force(terminate(S, S.workers[k], FALSE), k + 1)

RECURSIVE terminateAll(_, _)
terminateAll(S, k) ==
    IF k > Len(S.workers) THEN S
    ELSE terminateAll(terminate(S, S.workers[k], TRUE), k + 1)

dispose_NoClear(S) == terminateAll(S, 1)

dispose(S) == [terminateAll(S, 1) EXCEPT !.workers = <<>>]

Dispose ==
    /\ initState # "idle"
    /\ Commit(dispose(State), 0)
    /\ timers' = FALSE
    /\ disposed' = TRUE
    /\ result' = "none"
    /\ UNCHANGED <<isCleaningUp, exited, cmd, initState, rrIndex, now, lastSweep>>

\* ---- index.ts: the shutdown on SIGINT or SIGTERM --------------------------
\* handleSignal calls cleanup, which runs up to the await import of its
\* dispose closure; the manager module is loaded by then
HandleSignal ==
    /\ ~exited /\ ~isCleaningUp
    /\ initState # "idle"
    /\ isCleaningUp' = TRUE
    /\ result' = "none"
    /\ UNCHANGED <<exited, cmd, initState, timers, disposed, workers, handles,
                   rrIndex, spawnFailures, pending, now, lastSweep, faults>>

\* the closure that cleanup hands to WithTry goes on to Manager.dispose
CleanupDispose ==
    /\ isCleaningUp /\ ~disposed /\ ~exited
    /\ Dispose

\* cleanup has returned and handleSignal calls process.exit: every timer and
\* every outstanding callback of the process is gone, and a child whose kill
\* timer had not fired keeps running
ProcessExit ==
    /\ isCleaningUp /\ disposed /\ ~exited
    /\ exited' = TRUE
    /\ timers' = FALSE
    /\ pending' = EmptyBag
    /\ handles' = [w \in DOMAIN handles |->
                     IF handles[w].proc = "killing"
                     THEN [handles[w] EXCEPT !.proc = "running"]
                     ELSE handles[w]]
    /\ result' = "none"
    /\ UNCHANGED <<isCleaningUp, cmd, initState, disposed, workers, rrIndex,
                   spawnFailures, now, lastSweep, faults>>

Ids == 1..MaxIdleWorkers

StartupTasks ==
    {StartupTask(w, k, a) : w \in Ids, k \in {"init", "recover", "replace", "audit"},
                            a \in 0..MaxIdleWorkers}

Next ==
    \/ \E throws \in BOOLEAN : InitCall(throws)
    \/ \E t \in StartupTasks, healthy \in BOOLEAN, throws \in BOOLEAN :
          StartupDone(t, healthy, throws)
    \/ HealthSweep
    \/ \E w \in Ids, healthy \in BOOLEAN, throws \in BOOLEAN :
          ProbeDone(w, healthy, throws)
    \/ \E throws \in BOOLEAN : AuditSweep(throws)
    \/ Transcribe
    \/ \E w \in Ids, ok \in BOOLEAN : ProxyDone(w, ok)
    \/ \E w \in Ids, throws \in BOOLEAN : RotateFire(w, throws)
    \/ \E w \in Ids : KillFire(w)
    \/ \E w \in Ids : ChildExit(w)

\* The running manager.  Date.now() is read by the backoff gate only, which
\* engages at MAX_SPAWN_FAILURES failed spawns of one port, more than
\* MaxFaults allows: the clock stands still here.
Spec == Init /\ [][Next]_vars

\* The manager up to and after its shutdown
LifecycleNext == Next \/ Dispose

\* The running manager on a host where the children can all be killed from
\* outside
OutageNext == Next \/ KillAllChildren

OutageSpec == Init /\ [][OutageNext]_vars

\* The state after construction, for the programs cmds can name
InitWith(cmds) ==
    /\ cmd \in cmds
    /\ initState = "idle"
    /\ timers = FALSE
    /\ disposed = FALSE
    /\ isCleaningUp = FALSE
    /\ exited = FALSE
    /\ workers = <<>>
    /\ handles = <<>>
    /\ rrIndex = 0
    /\ spawnFailures = <<>>
    /\ pending = EmptyBag
    /\ now = 0
    /\ lastSweep = 0
    /\ result = "none"
    /\ faults = 0

\* The pool of a working server without client traffic, under a clock.  No
\* kill timer is ever armed here: without rotation, only a worker whose
\* child has exited is terminated gracefully within MaxFaults.
ClockInit == InitWith({CmdServer})

ClockNext ==
    \/ \E throws \in BOOLEAN : InitCall(throws)
    \/ \E t \in StartupTasks, healthy \in BOOLEAN, throws \in BOOLEAN :
          StartupDone(t, healthy, throws)
    \/ HealthSweep
    \/ \E w \in Ids, healthy \in BOOLEAN, throws \in BOOLEAN :
          ProbeDone(w, healthy, throws)
    \/ \E throws \in BOOLEAN : AuditSweep(throws)
    \/ \E w \in Ids : ChildExit(w)
    \/ Tick

ClockSpec == ClockInit /\ [][ClockNext]_vars

\* The pool of a command that never comes up, under a clock: every spawn
\* fails, which is what fills the backoff table
BackoffInit == InitWith({CmdMute, CmdMissing})

\* such a child does not end before it is killed
BackoffNext ==
    \/ \E throws \in BOOLEAN : InitCall(throws)
    \/ \E t \in StartupTasks, healthy \in BOOLEAN, throws \in BOOLEAN :
          StartupDone(t, healthy, throws)
    \/ HealthSweep
    \/ \E w \in Ids, healthy \in BOOLEAN, throws \in BOOLEAN :
          ProbeDone(w, healthy, throws)
    \/ \E throws \in BOOLEAN : AuditSweep(throws)
    \/ \E w \in Ids : KillFire(w)
    \/ Tick

BackoffSpec == BackoffInit /\ [][BackoffNext]_vars

\* The pool of a command that never comes up, on a host where kill() can
\* raise; the clock stands still
KillFaultInit == InitWith({CmdMute})

KillFaultNext ==
    \/ \E throws \in BOOLEAN : InitCall(throws)
    \/ \E t \in StartupTasks, healthy \in BOOLEAN, throws \in BOOLEAN :
          StartupDone(t, healthy, throws)
    \/ \E t \in StartupTasks, throws \in BOOLEAN :
          StartupDoneKillRaises(t, throws)
    \/ HealthSweep
    \/ \E w \in Ids, healthy \in BOOLEAN, throws \in BOOLEAN :
          ProbeDone(w, healthy, throws)
    \/ \E throws \in BOOLEAN : AuditSweep(throws)
    \/ \E w \in Ids : KillFire(w)

KillFaultSpec == KillFaultInit /\ [][KillFaultNext]_vars

\* The pool of a working server without client traffic, whose Health Sweeps
\* overlap; the clock stands still
OverlapNext ==
    \/ \E throws \in BOOLEAN : InitCall(throws)
    \/ \E t \in StartupTasks, healthy \in BOOLEAN, throws \in BOOLEAN :
          StartupDone(t, healthy, throws)
    \/ HealthSweepOverlap
    \/ \E w \in Ids, healthy \in BOOLEAN, throws \in BOOLEAN :
          ProbeDone(w, healthy, throws)
    \/ \E throws \in BOOLEAN : AuditSweep(throws)
    \/ \E w \in Ids : ChildExit(w)

OverlapSpec == ClockInit /\ [][OverlapNext]_vars

\* The pool of a working server whose clients send a request while another
\* one is still being served; the requests and rotations between two sweeps
DrainNext ==
    \/ \E throws \in BOOLEAN : InitCall(throws)
    \/ \E t \in StartupTasks, healthy \in BOOLEAN, throws \in BOOLEAN :
          StartupDone(t, healthy, throws)
    \/ TranscribeOverlap
    \/ \E w \in Ids, ok \in BOOLEAN : ProxyDone(w, ok)
    \/ \E w \in Ids, throws \in BOOLEAN : RotateFire(w, throws)
    \/ \E w \in Ids : KillFire(w)
    \/ \E w \in Ids : ChildExit(w)

DrainSpec == ClockInit /\ [][DrainNext]_vars

\* The pool without client traffic, up to and after the exit of the manager
\* on a signal
SignalNext ==
    \/ \E throws \in BOOLEAN : InitCall(throws)
    \/ \E t \in StartupTasks, healthy \in BOOLEAN, throws \in BOOLEAN :
          StartupDone(t, healthy, throws)
    \/ HealthSweep
    \/ \E w \in Ids, healthy \in BOOLEAN, throws \in BOOLEAN :
          ProbeDone(w, healthy, throws)
    \/ \E throws \in BOOLEAN : AuditSweep(throws)
    \/ \E w \in Ids : KillFire(w)
    \/ \E w \in Ids : ChildExit(w)
    \/ HandleSignal
    \/ CleanupDispose
    \/ ProcessExit

SignalSpec == Init /\ [][SignalNext]_vars

LifecycleSpec == Init /\ [][LifecycleNext]_vars

\* The pool without client traffic, up to and after its shutdown
ShutdownNext ==
    \/ \E throws \in BOOLEAN : InitCall(throws)
    \/ \E t \in StartupTasks, healthy \in BOOLEAN, throws \in BOOLEAN :
          StartupDone(t, healthy, throws)
    \/ HealthSweep
    \/ \E w \in Ids, healthy \in BOOLEAN, throws \in BOOLEAN :
          ProbeDone(w, healthy, throws)
    \/ \E throws \in BOOLEAN : AuditSweep(throws)
    \/ \E w \in Ids : KillFire(w)
    \/ \E w \in Ids : ChildExit(w)
    \/ Dispose

ShutdownSpec == Init /\ [][ShutdownNext]_vars

\* Under the scheduling of the event loop: armed interval timers keep
\* firing, every fetch settles (each has an abort timeout), waitForHealthy
\* returns by its deadline and every setTimeout fires.
Fairness ==
    /\ WF_vars(HealthSweep)
    /\ WF_vars(\E throws \in BOOLEAN : AuditSweep(throws))
    /\ WF_vars(\E w \in Ids, healthy \in BOOLEAN, throws \in BOOLEAN :
                  ProbeDone(w, healthy, throws))
    /\ WF_vars(\E t \in StartupTasks, healthy \in BOOLEAN, throws \in BOOLEAN :
                  StartupDone(t, healthy, throws))
    /\ WF_vars(\E w \in Ids, ok \in BOOLEAN : ProxyDone(w, ok))
    /\ WF_vars(\E w \in Ids, throws \in BOOLEAN : RotateFire(w, throws))
    /\ WF_vars(\E w \in Ids : KillFire(w))

FairSpec == Spec /\ Fairness

\* The same scheduling for the requests and rotations between two sweeps
DrainFairness ==
    /\ WF_vars(\E t \in StartupTasks, healthy \in BOOLEAN, throws \in BOOLEAN :
                  StartupDone(t, healthy, throws))
    /\ WF_vars(\E w \in Ids, ok \in BOOLEAN : ProxyDone(w, ok))
    /\ WF_vars(\E w \in Ids, throws \in BOOLEAN : RotateFire(w, throws))
    /\ WF_vars(\E w \in Ids : KillFire(w))

\* The lifetime of the children: requests, rotations, audits and dispose
LeakNext ==
    \/ \E throws \in BOOLEAN : InitCall(throws)
    \/ \E t \in StartupTasks, healthy \in BOOLEAN, throws \in BOOLEAN :
          StartupDone(t, healthy, throws)
    \/ Transcribe
    \/ \E w \in Ids, ok \in BOOLEAN : ProxyDone(w, ok)
    \/ \E w \in Ids, throws \in BOOLEAN : RotateFire(w, throws)
    \/ \E throws \in BOOLEAN : AuditSweep(throws)
    \/ \E w \in Ids : KillFire(w)
    \/ \E w \in Ids : ChildExit(w)
    \/ Dispose

LeakSpec == ClockInit /\ [][LeakNext]_vars /\ DrainFairness

TypeOK ==
    /\ cmd \in {"", CmdServer, CmdMute, CmdMissing}
    /\ disposed \in BOOLEAN
    /\ isCleaningUp \in BOOLEAN /\ exited \in BOOLEAN
    /\ initState \in {"idle", "running", "done", "failed"}
    /\ DOMAIN handles \subseteq Ids
    /\ \A i \in 1..Len(workers) : workers[i] = i /\ i \in DOMAIN handles
    /\ rrIndex \in Nat
    /\ now \in Nat /\ lastSweep \in Nat
    /\ faults \in 0..MaxFaults

\* ---- properties -----------------------------------------------------------
Registered == {workers[i] : i \in 1..Len(workers)}

\* C1: at every instant the registry holds at most one worker per port.
C1_OnePerPort ==
    \A i, j \in 1..Len(workers) :
        i # j => handles[workers[i]].port # handles[workers[j]].port

PoolCovered ==
    \A p \in Ports : \E w \in Registered : handles[w].port = p

\* C2: the pool tends toward the configured size: once no further fault
\* occurs (every child spawned from then on answers its startup probe) and
\* the sweeps keep firing, a port of the range that has lost its worker
\* while other ports still have registered workers eventually has a
\* registered worker again - which a Healthy worker for every port requires.
C2_PoolConverges ==
    (initState = "done" /\ workers # <<>> /\ ~PoolCovered
        /\ faults = MaxFaults)
    ~> PoolCovered

\* C3: selectWorker returns only a registered worker that is Healthy and
\* accepting, and returns null exactly when no registered worker is both.
C3_SelectSound ==
    LET r == selectWorker(workers, handles, rrIndex)
        ok == {w \in Registered : handles[w].state = "healthy"
                                  /\ handles[w].acceptingRequests}
    IN  /\ r.worker # Null => r.worker \in ok
        /\ r.worker = Null <=> ok = {}

C3_Witness ==
    /\ Len(workers) = 2
    /\ Len(healthyWorkers(workers, handles)) = 1
    /\ rrIndex = 1
    /\ selectWorker(workers, handles, rrIndex).worker # Null

\* C4: on an unchanged selectable list of H >= 1 workers and a cursor c, two
\* successive selectWorker calls return the workers at positions c mod H and
\* (c + 1) mod H; the cursor advances by one (mod H) per call.
C4_RoundRobin ==
    LET hw == healthyWorkers(workers, handles)
        H == Len(hw)
        c == rrIndex
        r1 == selectWorker(workers, handles, c)
        r2 == selectWorker(workers, handles, r1.rrIndex)
    IN  H >= 1 =>
          /\ r1.worker = hw[(c % H) + 1]
          /\ r2.worker = hw[((c + 1) % H) + 1]
          /\ r1.rrIndex = (c + 1) % H
          /\ r2.rrIndex = (c + 2) % H

C4_Witness ==
    /\ Len(healthyWorkers(workers, handles)) = 2
    /\ rrIndex = 1
    /\ Count(pending, "proxy") = 1

\* C5: a transcribe call made when no registered worker is Healthy and
\* accepting fails with "No healthy workers available" and changes nothing:
\* no counter, the registry, the cursor and the backoff table stay as they
\* are and no upstream request is outstanding for it.
C5_NoWorkerNoEffect ==
    [][(Transcribe /\ ~\E w \in Registered : handles[w].state = "healthy"
                                             /\ handles[w].acceptingRequests)
       => /\ result' = NoHealthy
          /\ UNCHANGED <<workers, handles, rrIndex, spawnFailures, pending>>]_vars

C5_Witness == result = NoHealthy /\ workers # <<>>

\* C6: when the upstream call of a transcribe fails, the selected worker's
\* consecutiveFailures grows by exactly 1 and nothing else of the manager
\* changes: the error reaches the caller, no other worker is tried (the
\* cursor stays, no new upstream request) and no rotation is scheduled.
C6_UpstreamFailure ==
    [][\A w \in Ids :
          ProxyDone(w, FALSE) =>
            LET S1 == Take(ProxyTask(w))
                T == onProxy(S1, w, FALSE)
            IN  /\ T = [S1 EXCEPT !.handles[w].consecutiveFailures = @ + 1]
                /\ result' = "upstream error"
                /\ rrIndex' = rrIndex
                /\ Count(pending', "proxy") = Count(pending, "proxy") - 1
                /\ Count(pending', "rotate") = Count(pending, "rotate")]_vars

C6_Witness ==
    /\ result = "upstream error"
    /\ \E w \in Registered : handles[w].consecutiveFailures >= 1

C8_ReplaceAtThreshold ==
    \A w \in DOMAIN handles, throws \in BOOLEAN :
        BagIn(ProbeTask(w), pending) =>
          LET S1 == Take(ProbeTask(w))
              S2 == [S1 EXCEPT !.handles[w].consecutiveFailures = @ + 1]
              T == onProbe(S1, w, FALSE, throws)
          IN  /\ IF handles[w].consecutiveFailures + 1 >= HEALTH_MAX_FAILURES
                 THEN /\ T = replaceWorker(S2, w, throws)
                      /\ ~InRegistry(T.workers, w)
                      /\ T.handles[w].state \in {"unhealthy", "stopped"}
                 ELSE T = S2
              /\ onProbe(S1, w, TRUE, throws).workers = workers

C8_Witness ==
    \E w \in DOMAIN handles :
        /\ handles[w].consecutiveFailures = HEALTH_MAX_FAILURES
        /\ handles[w].state = "unhealthy"
        /\ ~InRegistry(workers, w)
        /\ \E t \in BagToSet(pending) : t.kind = "replace" /\ t.arg = w

\* C9: a successful Health Sweep probe sets consecutiveFailures to 0 and the
\* state to Healthy and changes nothing else, so a worker that failed fewer
\* than HEALTH_MAX_FAILURES probes and then passes one stays registered.
C9_SuccessResets ==
    \A w \in DOMAIN handles :
        BagIn(ProbeTask(w), pending) =>
          LET S1 == Take(ProbeTask(w))
              T == onProbe(S1, w, TRUE, FALSE)
          IN  /\ T.handles[w].consecutiveFailures = 0
              /\ T.handles[w].state = "healthy"
              /\ T = [S1 EXCEPT !.handles[w].consecutiveFailures = 0,
                                !.handles[w].lastHealthyAt = now,
                                !.handles[w].state = "healthy"]

C9_Witness ==
    \E w \in Registered :
        /\ BagIn(ProbeTask(w), pending)
        /\ handles[w].state = "healthy"
        /\ handles[w].consecutiveFailures \in 1..(HEALTH_MAX_FAILURES - 1)
        /\ Up(handles[w])

\* C10: a registered worker whose consecutiveFailures has reached
\* HEALTH_MAX_FAILURES is not returned by selectWorker.
C10_NotSelectable ==
    \A w \in Registered :
        handles[w].consecutiveFailures >= HEALTH_MAX_FAILURES
        => ~(handles[w].state = "healthy" /\ handles[w].acceptingRequests)

\* a call of spawnWorker(port) in the current state returns at the backoff
\* check: it leaves the manager state as it found it
Aborted(port, throws) == spawnWorker(State, port, throws, "audit", 0) = State

\* C11: spawnWorker(port) is aborted exactly when the port's Backoff Record
\* has count >= MAX_SPAWN_FAILURES and less than
\* BASE_BACKOFF_MS * 2^(count - MAX_SPAWN_FAILURES) ms have passed since its
\* lastAttempt: after 5 failures the wait is BASE_BACKOFF_MS (an attempt at
\* exactly that distance proceeds), after 6 it is twice that.
C11_BackoffGate ==
    \A p \in Ports, throws \in BOOLEAN :
        LET has == p \in DOMAIN spawnFailures
            count == spawnFailures[p].count
            since == now - spawnFailures[p].lastAttempt
        IN  /\ Aborted(p, throws) <=>
                 /\ has
                 /\ count >= MAX_SPAWN_FAILURES
                 /\ since < BASE_BACKOFF_MS * 2 ^ (count - MAX_SPAWN_FAILURES)
            /\ (has /\ count = MAX_SPAWN_FAILURES) =>
                 (Aborted(p, throws) <=> since < BASE_BACKOFF_MS)
            /\ (has /\ count = MAX_SPAWN_FAILURES + 1) =>
                 (Aborted(p, throws) <=> since < 2 * BASE_BACKOFF_MS)

\* a port that failed 6 times and has waited exactly twice the base backoff
C11_Witness ==
    \E p \in DOMAIN spawnFailures :
        /\ spawnFailures[p].count = MAX_SPAWN_FAILURES + 1
        /\ now - spawnFailures[p].lastAttempt = 2 * BASE_BACKOFF_MS
        /\ ~Aborted(p, FALSE)

\* the registered workers of a port
OnPort(ws, hs, port) == {i \in 1..Len(ws) : hs[ws[i]].port = port}

\* a spawnWorker call for the port is suspended in waitForHealthy
Starting(port) ==
    \E t \in BagToSet(pending) : t.type = "startup" /\ handles[t.w].port = port

\* C12: a spawnWorker call that the backoff check aborts takes no action:
\* the registry, the port's Backoff Record (count and lastAttempt), the
\* pending work and the fields of every worker are as before and no child is
\* started.  So a callback that runs while a port's gate is closed and no
\* earlier call for that port is still waiting leaves the port's record
\* alone and registers no worker on the port.
C12_AbortedNoEffect ==
    [][\A p \in Ports :
          SkipSpawn(spawnFailures, p, now) =>
            /\ \A throws \in BOOLEAN, kind \in {"init", "recover", "replace", "audit"} :
                  LET T == spawnWorker(State, p, throws, kind, 0)
                  IN  /\ T.workers = workers
                      /\ T.handles = handles
                      /\ T.spawnFailures = spawnFailures
                      /\ T.pending = pending
            /\ (now' = now /\ ~Starting(p)) =>
                  /\ p \in DOMAIN spawnFailures'
                  /\ spawnFailures'[p] = spawnFailures[p]
                  /\ Cardinality(OnPort(workers', handles', p))
                        <= Cardinality(OnPort(workers, handles, p))
                  /\ ~Starting(p)']_vars

\* the gate of the first port is closed and nothing runs on that port, while
\* a worker of the second port was spawned at this very instant
C12_Witness ==
    /\ SkipSpawn(spawnFailures, StartingPort, now)
    /\ ~Starting(StartingPort)
    /\ OnPort(workers, handles, StartingPort) = {}
    /\ \E w \in DOMAIN handles :
          /\ handles[w].port = StartingPort + 1
          /\ handles[w].state = "starting"
          /\ handles[w].startedAt = now
          /\ now > 0

\* the spawnWorker calls for the port that are suspended in waitForHealthy
StartupsOn(bag, hs, port) ==
    {t \in BagToSet(bag) : t.type = "startup" /\ hs[t.w].port = port}

\* this callback made a spawn attempt for the port that passed the backoff
\* check: it started a child, or Bun.spawn raised and the failure was counted
Proceeded(port) ==
    /\ now' = now
    /\ \/ Cardinality(StartupsOn(pending', handles', port))
            > Cardinality(StartupsOn(pending, handles, port))
       \/ /\ CountOf(spawnFailures', port) > CountOf(spawnFailures, port)
          /\ Cardinality(StartupsOn(pending', handles', port))
                >= Cardinality(StartupsOn(pending, handles, port))

Exited == {w \in Registered : handles[w].proc = "exited"}

\* T registers a worker on the port that S does not know, and no longer w
ReplacedIn(S, T, w) ==
    /\ ~InRegistry(T.workers, w)
    /\ \E i \in 1..Len(T.workers) :
          /\ T.workers[i] \notin DOMAIN S.handles
          /\ T.handles[T.workers[i]].port = S.handles[w].port
          /\ T.handles[T.workers[i]].state = "starting"

Attempted(S, T) ==
    {p \in DOMAIN T.spawnFailures :
        p \notin DOMAIN S.spawnFailures \/ T.spawnFailures[p] # S.spawnFailures[p]}
    \cup {T.handles[w].port : w \in DOMAIN T.handles \ DOMAIN S.handles}

\* the loop indices from i on whose port has no registered worker in S and
\* an open backoff gate
Vacant(S, i) ==
    {j \in i..(PoolSize - 1) :
        /\ OnPort(S.workers, S.handles, StartingPort + j) = {}
        /\ ~SkipSpawn(S.spawnFailures, StartingPort + j, now)}

\* recoverPool, run on S from loop index i to its next suspension, attempts
\* a spawn for the vacant ports of the range and for nothing else: all of
\* them when Bun.spawn raises (the loop goes on), else the first only (the
\* loop is suspended in its spawnWorker call)
RecoversVacant(S, i, throws) ==
    LET T == recoverPool(S, i, throws)
        first == {j \in Vacant(S, i) : \A k \in Vacant(S, i) : j <= k}
    IN  /\ Attempted(S, T) =
              {StartingPort + j : j \in IF throws THEN Vacant(S, i) ELSE first}
        /\ Attempted(S, T) \subseteq Ports

\* C15: recoverPool, started by an Audit Sweep that finds the registry empty
\* and resumed each time its spawnWorker call returns, calls spawnWorker for
\* exactly the ports of the range that hold no registered worker at the
\* moment they are examined, and for no other port.
C15_RecoverVacantPorts ==
    \A throws \in BOOLEAN :
        /\ LET S1 == auditLoop(State, 1, throws)
           IN  (timers /\ Len(S1.workers) = 0) =>
                  /\ auditSweep(State, throws) = recoverPool(S1, 0, throws)
                  /\ RecoversVacant(S1, 0, throws)
        /\ \A t \in BagToSet(pending), healthy \in BOOLEAN :
              (t.type = "startup" /\ t.kind = "recover") =>
                 RecoversVacant(onStartup(State, t, healthy), t.arg, throws)

\* a recoverPool call is about to examine the second port of the range,
\* which holds a registered worker that another call has spawned meanwhile
C15_Witness ==
    /\ OnPort(workers, handles, StartingPort + 1) # {}
    /\ \E t \in BagToSet(pending) :
          /\ t.type = "startup" /\ t.kind = "recover" /\ t.arg = 1
          /\ recoverPool(onStartup(State, t, FALSE), t.arg, FALSE).workers
                = onStartup(State, t, FALSE).workers

\* every child of the pool is dead
AllDead ==
    /\ workers # <<>>
    /\ \A w \in DOMAIN handles : handles[w].proc \notin {"running", "killing"}

\* C16: once every child of the pool has been killed from outside, the next
\* transcribe call fails with "No healthy workers available": no request is
\* dispatched to a worker whose process is dead.
C16_DeadPoolRefuses ==
    [][(AllDead /\ Transcribe) =>
          /\ result' = NoHealthy
          /\ Count(pending', "proxy") = Count(pending, "proxy")]_vars

\* C17: dispose clears both sweep timers and, in the same callback, so that
\* no sweep can run in between, terminates gracefully every worker that is
\* registered when it is called: each ends Stopped and not accepting, with
\* its kill timer armed rather than its process killed on the spot, no other
\* worker is touched, and the registry is left empty.
C17_DisposeStopsAll ==
    [][Dispose =>
          LET T == dispose(State) IN
          /\ ~timers' /\ disposed'
          /\ workers' = <<>>
          /\ T.workers = <<>>
          /\ DOMAIN T.handles = DOMAIN handles
          /\ \A w \in DOMAIN handles :
                IF w \in Registered
                THEN /\ T.handles[w].state = "stopped"
                     /\ ~T.handles[w].acceptingRequests
                     /\ T.handles[w].proc = ArmKill(handles[w].proc)
                     /\ T.handles[w].proc # "killed" \/ handles[w].proc = "killed"
                ELSE T.handles[w] = handles[w]
          /\ handles' = Collect(T).handles
          /\ UNCHANGED <<rrIndex, spawnFailures>>]_vars

\* dispose has run on the initialised pool: every worker, Healthy until
\* then, is Stopped with its kill timer armed
C17_Witness ==
    /\ disposed /\ ~timers /\ workers = <<>>
    /\ initState = "done"
    /\ Cardinality({w \in DOMAIN handles :
                       /\ handles[w].state = "stopped"
                       /\ ~handles[w].acceptingRequests
                       /\ handles[w].proc = "killing"
                       /\ handles[w].lastHealthyAt = now}) = PoolSize

\* C18: dispose is idempotent.  The state a dispose call leaves has an empty
\* registry, so a second call finds no worker to terminate and no process to
\* kill, and it leaves the registry, the cursor, the backoff table and every
\* Worker object as the first call left them.
C18_DisposeIdempotent ==
    [][Dispose =>
          LET T == dispose(State) IN
          /\ T.workers = <<>>
          /\ dispose(T) = T
          /\ (disposed /\ workers = <<>>) =>
                UNCHANGED <<workers, handles, rrIndex, spawnFailures,
                            pending>>]_vars

\* a first dispose has completed and left workers with their kill timers
\* armed and a backoff table with entries; a second call can be made
C18_Witness ==
    /\ disposed /\ ~timers /\ workers = <<>>
    /\ spawnFailures # <<>>
    /\ \E w \in DOMAIN handles : handles[w].proc = "killing"
    /\ ENABLED Dispose

\* C19: init with an empty child command fails before it spawns any worker
\* or arms a sweep timer: the registry and the backoff table stay empty, no
\* child exists and nothing is outstanding.
C19_EmptyCmdFails ==
    cmd = "" =>
        /\ initState \in {"idle", "failed"}
        /\ workers = <<>> /\ handles = <<>>
        /\ spawnFailures = <<>>
        /\ pending = EmptyBag
        /\ ~timers

\* init has been called with an empty command and has failed
C19_Witness == cmd = "" /\ initState = "failed"

\* C20: a worker that is Healthy has had a successful probe (the last one is
\* stamped in lastHealthyAt) no longer ago than HEALTH_MAX_FAILURES health
\* intervals, and not before it was started.
C20_HealthyRecentlyProbed ==
    \A w \in DOMAIN handles :
        handles[w].state = "healthy" =>
            /\ handles[w].lastHealthyAt
                  >= now - HEALTH_INTERVAL_MS * HEALTH_MAX_FAILURES
            /\ handles[w].lastHealthyAt >= handles[w].startedAt

\* no Worker object of S has a lower requestCount in T
KeepsCounts(S, T) ==
    \A w \in DOMAIN S.handles :
        /\ w \in DOMAIN T.handles
        /\ T.handles[w].requestCount >= S.handles[w].requestCount

\* C21: a transcribe call selects, then increments requestCount of the
\* selected worker by one and sends, all in one callback and before the
\* outcome of the send is known; rotation is scheduled only when the send has
\* returned, and then the count is not touched again, whatever the outcome.
\* No callback lowers the requestCount of a worker.
C21_CountOncePerCall ==
    [][/\ Transcribe =>
            LET sel == selectWorker(workers, handles, rrIndex) IN
            sel.worker # Null =>
               /\ handles' = [handles EXCEPT ![sel.worker].requestCount = @ + 1]
               /\ pending' = AddTask(pending, ProxyTask(sel.worker))
               /\ Count(pending', "rotate") = Count(pending, "rotate")
               /\ workers' = workers
       /\ \A w \in Ids, ok \in BOOLEAN :
            BagIn(ProxyTask(w), pending) =>
               LET S == Take(ProxyTask(w))
                   T == onProxy(S, w, ok)
               IN  /\ \A x \in DOMAIN handles :
                         T.handles[x].requestCount = handles[x].requestCount
                   /\ Count(T.pending, "rotate") > Count(S.pending, "rotate") =>
                         ok /\ handles[w].requestCount >= RotateThreshold
       /\ \A t \in BagToSet(pending), b \in BOOLEAN, throws \in BOOLEAN :
            /\ t.type = "probe" =>
                  KeepsCounts(State, onProbe(Take(t), t.w, b, throws))
            /\ t.type = "startup" =>
                  KeepsCounts(State, Continue(onStartup(State, t, b), t, throws).s)
            /\ t.type = "rotate" =>
                  KeepsCounts(State, replaceWorker(Take(t), t.w, throws))
            /\ KeepsCounts(State, auditSweep(State, throws))
            /\ KeepsCounts(State, dispose(State))]_vars

\* a call whose send failed has ended: the worker it was dispatched to keeps
\* the count of the call
C21_Witness ==
    /\ result = "upstream error"
    /\ \E w \in DOMAIN handles :
          /\ handles[w].requestCount >= 1
          /\ handles[w].consecutiveFailures >= 1

\* the callbacks that can call replaceWorker(w) are outstanding
Replaceable(w) == BagIn(RotateTask(w), pending) \/ BagIn(ProbeTask(w), pending)

\* C22: replaceWorker(w) marks w Unhealthy and not accepting and takes it
\* out of the registry before the spawn on its port starts: the new worker
\* is appended to a registry without w.  The process of w is left alone
\* while that spawnWorker call is suspended; it is terminated gracefully when
\* the call has returned: at once when the attempt was skipped or raised,
\* else when the startup of the replacement has ended, healthy or not.
C22_ReplaceThenTerminate ==
    \A w \in DOMAIN handles, throws \in BOOLEAN, healthy \in BOOLEAN :
        /\ Replaceable(w) =>
              LET T == replaceWorker(State, w, throws)
                  new == DOMAIN T.handles \ DOMAIN handles
              IN  /\ ~InRegistry(T.workers, w)
                  /\ ~T.handles[w].acceptingRequests
                  /\ \A x \in DOMAIN handles \ {w} : T.handles[x] = handles[x]
                  /\ IF new # {}
                     THEN \E id \in new :
                            /\ new = {id}
                            /\ T.workers = Append(Remove(workers, w), id)
                            /\ T.handles[id].port = handles[w].port
                            /\ BagIn(StartupTask(id, "replace", w), T.pending)
                            /\ T.handles[w].state = "unhealthy"
                            /\ T.handles[w].proc = handles[w].proc
                     ELSE /\ T.workers = Remove(workers, w)
                          /\ T.handles[w].state = "stopped"
                          /\ T.handles[w].proc = ArmKill(handles[w].proc)
        /\ \A t \in BagToSet(pending) :
              (t.type = "startup" /\ t.kind = "replace" /\ t.arg = w) =>
                 LET T == Continue(onStartup(State, t, healthy), t, throws).s
                 IN  /\ T.handles[w].state = "stopped"
                     /\ ~T.handles[w].acceptingRequests
                     /\ T.handles[w].proc = ArmKill(handles[w].proc)
                     /\ ~InRegistry(T.workers, w)

\* a replacement is starting while the worker it replaces, Unhealthy and out
\* of the registry, still has its process running
C22_Witness ==
    \E t \in BagToSet(pending) :
        /\ t.type = "startup" /\ t.kind = "replace"
        /\ handles[t.arg].state = "unhealthy"
        /\ handles[t.arg].proc = "running"
        /\ ~InRegistry(workers, t.arg)
        /\ handles[t.w].port = handles[t.arg].port

\* C23: when waitForHealthy returns false for a spawned worker, spawnWorker
\* raises the count of the port's Backoff Record by exactly 1, deletes the
\* worker from the registry and terminates it non-gracefully: the worker is
\* unregistered, Stopped and not accepting, its process killed on the spot,
\* and it is still so when the caller's continuation has run.
C23_StartupFailure ==
    \A t \in BagToSet(pending), throws \in BOOLEAN :
        t.type = "startup" =>
           LET w == t.w
               port == handles[w].port
               T == onStartup(State, t, FALSE)
               R == Continue(T, t, throws).s
           IN  /\ T.spawnFailures =
                     SetFailure(spawnFailures, port,
                                CountOf(spawnFailures, port) + 1, now)
               /\ T.workers = Remove(workers, w)
               /\ T.handles = [handles EXCEPT ![w].state = "stopped",
                                              ![w].acceptingRequests = FALSE,
                                              ![w].proc = Kill(@)]
               /\ T.handles[w].proc \in {"killed", "exited"}
               /\ ~InRegistry(R.workers, w)
               /\ R.handles[w] = T.handles[w]
               /\ R.spawnFailures[port] = T.spawnFailures[port]

\* without any Bun.spawn having raised, a port has failed its startup twice
\* and holds no worker
C23_Witness ==
    /\ cmd = CmdMute /\ faults = 0
    /\ \E p \in DOMAIN spawnFailures :
          /\ spawnFailures[p].count = 2
          /\ spawnFailures[p].lastAttempt = now
          /\ OnPort(workers, handles, p) = {}

\* sf and tf are the same backoff table but for the records of the ports
SameBut(sf, tf, ports) ==
    /\ DOMAIN sf \ ports = DOMAIN tf \ ports
    /\ \A p \in DOMAIN sf \ ports : tf[p] = sf[p]

\* C24: when a spawnWorker call ends with a healthy worker, the port has no
\* Backoff Record any more, and it still has none when the caller's
\* continuation has run; the records of the other ports are not touched by
\* the success.  Nothing but spawnWorker writes the backoff table: sweeps,
\* dispatch, upstream results, timers of terminate, child exits and dispose
\* leave it alone, and replaceWorker and a probe callback change at most
\* the record of the port they spawn on.
C24_RecordLifecycle ==
    [][/\ \A t \in BagToSet(pending), throws \in BOOLEAN :
            t.type = "startup" =>
               LET port == handles[t.w].port
                   T == onStartup(State, t, TRUE)
                   R == Continue(T, t, throws).s
               IN  /\ port \notin DOMAIN T.spawnFailures
                   /\ SameBut(spawnFailures, T.spawnFailures, {port})
                   /\ port \notin DOMAIN R.spawnFailures
       /\ \/ HealthSweep
          \/ Transcribe
          \/ \E w \in Ids, ok \in BOOLEAN : ProxyDone(w, ok)
          \/ \E w \in Ids : KillFire(w)
          \/ \E w \in Ids : ChildExit(w)
          \/ \E w \in Ids : ProbeDone(w, TRUE, FALSE)
          => spawnFailures' = spawnFailures
       /\ \A w \in Ids, throws \in BOOLEAN :
            /\ (ProbeDone(w, FALSE, throws) \/ RotateFire(w, throws)) =>
                  SameBut(spawnFailures, spawnFailures', {handles[w].port})
            /\ (ProbeDone(w, FALSE, throws)
                   /\ handles[w].consecutiveFailures + 1 < HEALTH_MAX_FAILURES) =>
                  spawnFailures' = spawnFailures
       /\ dispose(State).spawnFailures = spawnFailures
       /\ \A w \in DOMAIN handles, g \in BOOLEAN :
            terminate(State, w, g).spawnFailures = spawnFailures]_vars

\* init is between two ports: the worker of the first port is Healthy and
\* the record its spawn attempt had stamped is gone
C24_Witness ==
    /\ initState = "running"
    /\ StartingPort \notin DOMAIN spawnFailures
    /\ StartingPort + 1 \in DOMAIN spawnFailures
    /\ \E w \in Registered :
          handles[w].port = StartingPort /\ handles[w].state = "healthy"

\* C25: a Bun.spawn that raises is caught inside spawnWorker: the count of
\* the port's record grows by exactly 1, no worker of that attempt is
\* registered or kept, and the caller goes on as after any other return.  An
\* init whose spawns all raise still completes and arms the timers, with an
\* empty registry; clients then see only "No healthy workers available".
C25_SpawnErrorAbsorbed ==
    [][/\ \A p \in Ports, kind \in {"init", "recover", "replace", "audit"} :
            ~SkipSpawn(spawnFailures, p, now) =>
               spawnWorker(State, p, TRUE, kind, 0) =
                  [State EXCEPT !.spawnFailures =
                      SetFailure(@, p, CountOf(@, p) + 1, now)]
       /\ (InitCall(TRUE) /\ cmd # "") =>
            /\ initState' = "done" /\ timers'
            /\ workers' = <<>> /\ handles' = <<>> /\ pending' = EmptyBag
            /\ \A p \in Ports :
                  /\ p \in DOMAIN spawnFailures'
                  /\ spawnFailures'[p].count = CountOf(spawnFailures, p) + 1
       /\ (Transcribe /\ workers = <<>>) => result' = NoHealthy]_vars

\* every spawn of init has raised; init has completed all the same and a
\* client has been told that there is no healthy worker
C25_Witness ==
    /\ initState = "done" /\ timers
    /\ workers = <<>>
    /\ \A p \in Ports : CountOf(spawnFailures, p) = 1
    /\ result = NoHealthy

\* C26: only a Healthy worker is moved to Unhealthy, and a registered
\* Starting worker stays registered until its own startup ends: the callback
\* of a failed probe, or a rotation timer, neither marks a Starting or
\* Stopped worker Unhealthy nor takes a Starting worker out of the registry.
C26_UnhealthyOnlyFromHealthy ==
    [][\A w \in Ids, throws \in BOOLEAN :
          (ProbeDone(w, FALSE, throws) \/ RotateFire(w, throws)) =>
             LET T == IF BagIn(RotateTask(w), pending)
                      THEN replaceWorker(Take(RotateTask(w)), w, throws)
                      ELSE onProbe(Take(ProbeTask(w)), w, FALSE, throws)
             IN  handles[w].state # "healthy" =>
                    /\ T.handles[w].state # "unhealthy"
                    /\ (handles[w].state = "starting" /\ InRegistry(workers, w))
                          => InRegistry(T.workers, w)]_vars

\* C27: Stopped is terminal: the callbacks that still hold a worker that
\* terminate has stopped (an outstanding probe, the end of its startup, its
\* rotation timer) leave its state Stopped.
C27_StoppedTerminal ==
    [][\A w \in DOMAIN handles, healthy \in BOOLEAN, throws \in BOOLEAN :
          handles[w].state = "stopped" =>
             /\ ProbeDone(w, healthy, throws) =>
                   onProbe(Take(ProbeTask(w)), w, healthy, throws)
                      .handles[w].state = "stopped"
             /\ RotateFire(w, throws) =>
                   replaceWorker(Take(RotateTask(w)), w, throws)
                      .handles[w].state = "stopped"
             /\ \A t \in BagToSet(pending) :
                   (t.type = "startup" /\ t.w = w
                      /\ StartupDone(t, healthy, throws)) =>
                         onStartup(State, t, healthy).handles[w].state = "stopped"]_vars
\* C28: terminate leaves the worker Stopped before it returns in both modes;
\* a graceful call stops routing to the worker at once and leaves the kill to
\* its 2 s timer, a non-graceful call kills at once; when the kill raises the
\* caller goes on and the worker is Stopped all the same.
C28_TerminateSemantics ==
    [][\A t \in BagToSet(pending), throws \in BOOLEAN :
          /\ (t.type = "startup" /\ StartupDone(t, FALSE, throws)) =>
                LET h == onStartup(State, t, FALSE).handles[t.w]
                IN  /\ h.state = "stopped"
                    /\ h.proc = Kill(handles[t.w].proc)
          /\ (t.type = "startup" /\ t.kind = "replace"
                /\ \E healthy \in BOOLEAN : StartupDone(t, healthy, throws)) =>
                \A healthy \in BOOLEAN :
                   LET S1 == onStartup(State, t, healthy)
                       h == Continue(S1, t, throws).s.handles[t.arg]
                   IN  /\ h.state = "stopped"
                       /\ ~h.acceptingRequests
                       /\ h.proc = ArmKill(S1.handles[t.arg].proc)
                       /\ S1.handles[t.arg].proc = "running" => h.proc = "killing"
          /\ (t.type = "startup" /\ StartupDoneKillRaises(t, throws)) =>
                onStartupKillRaises(State, t).handles[t.w].state = "stopped"]_vars

\* the spawnWorker calls of init that have not returned
InitTasks(bag) == {t \in BagToSet(bag) : t.type = "startup" /\ t.kind = "init"}

\* C29: init starts its workers one at a time, in increasing port order, each
\* only once the one before has become healthy or failed; the sweep timers
\* are armed once the last of them has, so no sweep runs while a worker that
\* init spawned is still Starting.
C29_InitSequential ==
    [][/\ \A t \in InitTasks(pending') :
             /\ InitTasks(pending') = {t} /\ pending'[t] = 1
             /\ handles'[t.w].port = StartingPort + t.arg - 1
             /\ handles'[t.w].state = "starting" /\ InRegistry(workers', t.w)
             /\ initState' = "running" /\ ~timers'
             /\ \A u \in InitTasks(pending) :
                   /\ u.arg <= t.arg
                   /\ u.arg < t.arg =>
                         \E healthy \in BOOLEAN, throws \in BOOLEAN :
                            StartupDone(u, healthy, throws)
       /\ (~timers /\ timers') =>
             /\ InitTasks(pending') = {} /\ initState' = "done"
             /\ \/ \E throws \in BOOLEAN : InitCall(throws)
                \/ \E u \in InitTasks(pending), healthy \in BOOLEAN,
                      throws \in BOOLEAN : StartupDone(u, healthy, throws)
       /\ (HealthSweep \/ \E throws \in BOOLEAN : AuditSweep(throws)) =>
             InitTasks(pending) = {}]_vars

\* init has brought up the whole pool and a Health Sweep has run since
C29_Witness ==
    /\ initState = "done" /\ timers
    /\ Len(workers) = PoolSize
    /\ \A i \in 1..PoolSize : handles[workers[i]].port = StartingPort + i - 1
    /\ Count(pending, "probe") > 0

\* the state after the callback of a second probe of w with the same result
\* has run behind the first
Twice(S, w, healthy, throws) ==
    onProbe([onProbe(S, w, healthy, throws)
               EXCEPT !.pending = DelTask(@, ProbeTask(w))],
            w, healthy, throws)

\* C30: when two probes of one worker are outstanding and both report the
\* same result, handling both leaves the worker's state and
\* consecutiveFailures, the registry and the number of replacement spawns as
\* handling one of them does.
C30_DuplicateIdempotent ==
    [][\A w \in DOMAIN handles, healthy \in BOOLEAN, throws \in BOOLEAN :
          (ProbeDone(w, healthy, throws) /\ pending[ProbeTask(w)] >= 2) =>
             LET S1 == Take(ProbeTask(w))
                 once == onProbe(S1, w, healthy, throws)
                 twice == Twice(S1, w, healthy, throws)
             IN  /\ twice.handles[w].state = once.handles[w].state
                 /\ twice.handles[w].consecutiveFailures
                       = once.handles[w].consecutiveFailures
                 /\ twice.workers = once.workers
                 /\ Count(twice.pending, "startup")
                       = Count(once.pending, "startup")]_vars

\* an earlier replaceWorker has taken w out of the registry
Replaced(w) ==
    /\ ~InRegistry(workers, w)
    /\ handles[w].state \in {"unhealthy", "stopped"}

\* the worker that T registers and S does not, as a set
Spawned(S, T) ==
    {T.handles[id] : id \in (DOMAIN T.handles) \ (DOMAIN S.handles)}

\* C31: a replaceWorker call for a worker that an earlier replaceWorker has
\* already taken out of the registry spawns again, whichever callback makes
\* it: unless Bun.spawn raises or the backoff gate skips the attempt, one
\* more worker is registered on the port.
C31_SecondReplacement ==
    [][\A w \in DOMAIN handles, throws \in BOOLEAN :
          LET port == handles[w].port
              spawns == ~throws /\ ~SkipSpawn(spawnFailures, port, now)
          IN  /\ (Replaced(w) /\ spawns) =>
                    LET T == replaceWorker(State, w, throws)
                    IN  /\ Len(T.workers) = Len(workers) + 1
                        /\ \E h \in Spawned(State, T) :
                              h.port = port /\ h.state = "starting"
              /\ (Replaced(w) /\ ProbeDone(w, FALSE, throws) /\ spawns
                    /\ handles[w].consecutiveFailures + 1 >= HEALTH_MAX_FAILURES) =>
                    LET S1 == Take(ProbeTask(w))
                        T == onProbe(S1, w, FALSE, throws)
                    IN  /\ Len(T.workers) = Len(S1.workers) + 1
                        /\ \E h \in Spawned(S1, T) :
                              h.port = port /\ h.state = "starting"]_vars

\* two replacements of one and the same worker are starting
C31_Witness ==
    \E t, u \in BagToSet(pending) :
       /\ t.type = "startup" /\ t.kind = "replace"
       /\ u.type = "startup" /\ u.kind = "replace"
       /\ t.arg = u.arg /\ t.w # u.w
       /\ handles[t.w].port = handles[u.w].port
       /\ handles[t.w].port = handles[t.arg].port

\* C32: when the kill timer of a replaced worker fires, no request
\* dispatched to that worker is still awaiting its upstream response.
C32_DrainedAtKill ==
    [][\A w \in DOMAIN handles :
          KillFire(w) => ~BagIn(ProxyTask(w), pending)]_vars

\* C33: on a signal the cleanup and its dispose run at most once, and when
\* the manager process exits the child of every worker that dispose has
\* terminated has been killed.
C33_KilledBeforeExit ==
    [][/\ HandleSignal => ~isCleaningUp
       /\ CleanupDispose => ~disposed
       /\ ProcessExit =>
             \A w \in DOMAIN handles :
                handles[w].state = "stopped" =>
                   handles[w].proc \in {"killed", "exited"}]_vars

\* C34: at most one spawnWorker call per port is between registering its
\* worker and learning the startup outcome.
C34_OneSpawnPerPort ==
    \A t, u \in BagToSet(pending) :
       (t.type = "startup" /\ u.type = "startup"
          /\ handles[t.w].port = handles[u.w].port) =>
             t = u /\ pending[t] = 1

\* Manager.getPoolStatus: the states it reports, in registry order
getPoolStatus(ws, hs) == [i \in 1..Len(ws) |-> hs[ws[i]].state]

\* C35: between two callbacks every registered worker is Starting or
\* Healthy, so getPoolStatus reports no Unhealthy and no Stopped worker: the
\* callback that marks a worker Unhealthy or Stopped also takes it out of the
\* registry.
C35_RegisteredStates ==
    \A i \in 1..Len(workers) :
       getPoolStatus(workers, handles)[i] \in {"starting", "healthy"}

\* a worker has been replaced and one has been terminated, next to a
\* registered worker
C35_Witness ==
    /\ workers # <<>>
    /\ \E w \in DOMAIN handles :
          handles[w].state = "unhealthy" /\ ~InRegistry(workers, w)
    /\ \E w \in DOMAIN handles :
          handles[w].state = "stopped" /\ ~InRegistry(workers, w)

\* from S to T no worker that has stopped accepting accepts again, and the
\* workers created in between accept
StaysClosed(S, T) ==
    /\ \A w \in DOMAIN S.handles :
          ~S.handles[w].acceptingRequests =>
             w \in DOMAIN T.handles /\ ~T.handles[w].acceptingRequests
    /\ \A h \in Spawned(S, T) : h.acceptingRequests

\* C36: a worker accepts requests when it is created, and no callback sets
\* acceptingRequests of a worker back to true, a successful probe included.
C36_NeverReopens ==
    [][/\ Transcribe =>
            \A w \in DOMAIN handles :
               ~handles[w].acceptingRequests =>
                  w \in DOMAIN handles' /\ ~handles'[w].acceptingRequests
       /\ \A t \in BagToSet(pending), b \in BOOLEAN, throws \in BOOLEAN :
            /\ t.type = "probe" =>
                  StaysClosed(State, onProbe(Take(t), t.w, b, throws))
            /\ t.type = "startup" =>
                  StaysClosed(State, Continue(onStartup(State, t, b), t, throws).s)
            /\ t.type = "rotate" =>
                  StaysClosed(State, replaceWorker(Take(t), t.w, throws))
            /\ t.type = "proxy" =>
                  StaysClosed(State, onProxy(Take(t), t.w, b))
       /\ \A throws \in BOOLEAN :
            /\ StaysClosed(State, auditSweep(State, throws))
            /\ StaysClosed(State, initLoop(State, 0, throws).s)
       /\ StaysClosed(State, dispose(State))
       /\ \A w \in DOMAIN handles, g \in BOOLEAN :
            StaysClosed(State, terminate(State, w, g))]_vars

\* a worker that was rotated out and terminated has answered a probe since:
\* it is Healthy again and still does not accept
C36_Witness ==
    \E w \in DOMAIN handles :
       /\ handles[w].state = "healthy"
       /\ ~handles[w].acceptingRequests
       /\ ~InRegistry(workers, w)
       /\ handles[w].requestCount >= RotateThreshold

\* C37: once dispose has run, no callback registers a worker or starts a
\* spawn again.
C37_NoSpawnAfterDispose ==
    [][disposed =>
          /\ workers' = <<>>
          /\ Count(pending', "startup") <= Count(pending, "startup")]_vars

\* no Worker object of T that no callback holds any more has a child that
\* runs without a kill timer
NoLeak(T) ==
    \A w \in (DOMAIN T.handles) \ Reachable(T) : T.handles[w].proc # "running"

\* a worker of this port is out of the registry and its child runs without
\* a kill timer
Unkilled(port) ==
    \E w \in DOMAIN handles :
       /\ handles[w].port = port
       /\ ~InRegistry(workers, w)
       /\ handles[w].proc = "running"

\* the spawnWorker call of a replaceWorker(w) has not returned: its
\* continuation will terminate w
Awaited(w) ==
    \E t \in BagToSet(pending) :
       t.type = "startup" /\ t.kind = "replace" /\ t.arg = w

C39_WithinThreshold ==
    [][Transcribe =>
          LET sel == selectWorker(workers, handles, rrIndex)
          IN  sel.worker # Null =>
                 handles[sel.worker].requestCount < RotateThreshold]_vars

====
